---- MODULE Spec2Model ----
(***************************************************************************)
(* A model of kivy/input/motionevent.py: the MotionEvent record, its       *)
(* coordinate tracking (depack, move, scale_for_screen,                    *)
(* apply_transform_2d), its snapshot stack (push, pop), copy_to and the    *)
(* grab registry (grab, ungrab) with weakly referenced claimants.          *)
(*                                                                         *)
(* Numbers.  Normalized coordinates are fractions k/Den and are            *)
(* stored as their numerator k; screen coordinates are stored as           *)
(* numerators over the same Den (x = sx * w is stored as k * w), so that   *)
(* every product, difference and "1 - sx" of the source is exact.          *)
(* Python's None is the empty tuple and a value v that may be None is the  *)
(* one-element tuple <<v>>.                                                *)
(***************************************************************************)
EXTENDS Integers, Sequences, FiniteSets, TLC

VARIABLES
    uniq_id,    \* MotionEvent.__uniq_id, the class-level counter
    events,     \* the events constructed so far, in construction order
    live,       \* the claimant objects (widgets) that have not been destroyed
    call,       \* the last call made: <<operation, event, claimant or other
                \* event or <<w, h, p, rotation>>, exclusive>>, with 0
                \* where there is none
    result,     \* its outcome: "ok" or the name of the exception it raised
    excl_grants, \* per event, how many exclusive grabs succeeded (history)
    nops        \* how many calls were made, where the specification counts them

vars == <<uniq_id, events, live, call, result, excl_grants, nops>>

----------------------------------------------------------------------------
(* Bounds of the model.                                                    *)

MaxEvents == 2
MaxClaimants == 2
MaxGrabs == 3
MaxStack == 2
MaxExclGrants == 2
MaxOps == 6
MaxCalls == 5
MaxCoord == 8
Den == 4

Claimants == 1..MaxClaimants

----------------------------------------------------------------------------
(* Optional values.                                                        *)

None == <<>>
Some(v) == <<v>>
Val(o) == o[1]

(* weakref.ref(obj): the reference to claimant c.  Two references to live  *)
(* objects are equal iff their referents are; a dead reference equals only *)
(* itself, and ids are never reused, so equality of ids is equality of     *)
(* references.                                                             *)
weakref_ref(c) == <<c>>

(* A list object: Python lists are changed in place, so two attributes     *)
(* that hold the same list see each other's appends and pops.  id names    *)
(* the object, items is its content.                                       *)
list(id, items) == [id |-> id, items |-> items]

(* Calling a weak reference: the referent, or None once it is destroyed.   *)
Deref(ref, alive) == IF ref # None /\ Val(ref) \in alive THEN ref ELSE None

----------------------------------------------------------------------------
(* Sequences.                                                              *)

IndexOf(seq, v) ==
    IF \E i \in 1..Len(seq) : seq[i] = v
    THEN CHOOSE i \in 1..Len(seq) : seq[i] = v /\ \A j \in 1..(i - 1) : seq[j] # v
    ELSE 0

\* list.remove(v): the list without its first entry equal to v
list_remove(seq, v) ==
    LET k == IndexOf(seq, v)
    IN  [i \in 1..(Len(seq) - 1) |-> IF i < k THEN seq[i] ELSE seq[i + 1]]

Count(seq, v) == Cardinality({i \in 1..Len(seq) : seq[i] = v})

----------------------------------------------------------------------------
(* MotionEvent.                                                            *)

\* self.push_attrs, the default attribute set of push()
push_attrs ==
    <<"x", "y", "z", "dx", "dy", "dz", "ox", "oy", "oz", "px", "py", "pz", "pos">>

\* __attrs__ with "uid" listed too, so that copy_to copies the uid
attrs_WithUid ==
    <<"device", "push_attrs", "push_attrs_stack", "is_touch", "id", "shape",
      "profile", "sx", "sy", "sz", "osx", "osy", "osz", "psx", "psy", "psz",
      "dsx", "dsy", "dsz", "x", "y", "z", "ox", "oy", "oz", "px", "py", "pz",
      "dx", "dy", "dz", "is_double_tap", "double_tap_time", "ud", "uid">>

\* MotionEvent.__attrs__, the attributes copy_to copies
__attrs__ ==
    <<"device", "push_attrs", "push_attrs_stack", "is_touch", "id", "shape",
      "profile", "sx", "sy", "sz", "osx", "osy", "osz", "psx", "psy", "psz",
      "dsx", "dsy", "dsz", "x", "y", "z", "ox", "oy", "oz", "px", "py", "pz",
      "dx", "dy", "dz", "is_double_tap", "double_tap_time", "ud">>

\* The attribute assignments of __init__, before its call of depack.
init_attrs(uid, device, id) ==
    [is_touch |-> FALSE,
     push_attrs_stack |-> list(<<uid, 0>>, <<>>),
     push_attrs |-> push_attrs,
     uid |-> uid,
     device |-> device,
     grab_list |-> <<>>,
     grab_exclusive_class |-> None,
     grab_state |-> FALSE,
     grab_current |-> None,
     profile |-> <<>>,
     id |-> id,
     shape |-> None,
     sx |-> 0, sy |-> 0, sz |-> 0,
     osx |-> None, osy |-> None, osz |-> None,
     psx |-> None, psy |-> None, psz |-> None,
     dsx |-> None, dsy |-> None, dsz |-> None,
     x |-> 0, y |-> 0, z |-> 0,
     ox |-> None, oy |-> None, oz |-> None,
     px |-> None, py |-> None, pz |-> None,
     dx |-> None, dy |-> None, dz |-> None,
     pos |-> <<0, 0>>,
     is_double_tap |-> FALSE,
     double_tap_time |-> 0,
     ud |-> <<>>]

(* The provider subclass's depack override, which runs before the base     *)
(* depack: it reads the payload into the normalized position and the       *)
(* profile; is_touch is true iff the profile has "pos".                    *)
unpack(self, args) ==
    [self EXCEPT !.sx = args.sx, !.sy = args.sy, !.sz = args.sz,
                 !.profile = args.profile,
                 !.is_touch = \E i \in 1..Len(args.profile) : args.profile[i] = "pos"]

\* depack without "if self.osx is None": every call seeds the origin again
depack_AlwaysSeeds(self) ==
    LET s1 == [self EXCEPT !.psx = Some(self.sx), !.osx = Some(self.sx),
                           !.psy = Some(self.sy), !.osy = Some(self.sy),
                           !.psz = Some(self.sz), !.osz = Some(self.sz)]
    IN  [s1 EXCEPT !.dsx = Some(s1.sx - Val(s1.psx)),
                   !.dsy = Some(s1.sy - Val(s1.psy)),
                   !.dsz = Some(s1.sz - Val(s1.psz))]

\* MotionEvent.depack
depack(self) ==
    LET s1 == IF self.osx = None
              THEN [self EXCEPT !.psx = Some(self.sx), !.osx = Some(self.sx),
                                !.psy = Some(self.sy), !.osy = Some(self.sy),
                                !.psz = Some(self.sz), !.osz = Some(self.sz)]
              ELSE self
    IN  [s1 EXCEPT !.dsx = Some(s1.sx - Val(s1.psx)),
                   !.dsy = Some(s1.sy - Val(s1.psy)),
                   !.dsz = Some(s1.sz - Val(s1.psz))]

\* __init__ seeding the origin before the provider's depack has read args
MotionEvent_init_SeedsBeforeUnpack(cls, counter, device, id, args) ==
    IF cls = "MotionEvent"
    THEN [raised |-> "NotImplementedError", uniq_id |-> counter, self |-> None]
    ELSE [raised |-> "ok", uniq_id |-> counter + 1,
          self |-> unpack(depack(init_attrs(counter + 1, device, id)), args)]

(* MotionEvent.__init__ called on class cls while the class counter is     *)
(* counter: what it raises, the counter afterwards and the new event.      *)
MotionEvent_init(cls, counter, device, id, args) ==
    IF cls = "MotionEvent"
    THEN [raised |-> "NotImplementedError", uniq_id |-> counter, self |-> None]
    ELSE [raised |-> "ok", uniq_id |-> counter + 1,
          self |-> depack(unpack(init_attrs(counter + 1, device, id), args))]

\* grab without the test of is_touch
grab_NoTouchCheck(self, class_instance, exclusive) ==
    IF self.grab_exclusive_class # None
    THEN [raised |-> "Exception: Cannot grab the touch, touch are exclusive",
          self |-> self]
    ELSE LET ref == weakref_ref(class_instance)
             s1 == IF exclusive
                   THEN [self EXCEPT !.grab_exclusive_class = ref]
                   ELSE self
         IN  [raised |-> "ok",
              self |-> [s1 EXCEPT !.grab_list = Append(s1.grab_list, ref)]]

\* grab without the test of grab_exclusive_class
grab_NoExclusiveCheck(self, class_instance, exclusive) ==
    IF ~self.is_touch
    THEN [raised |-> "Exception: Grab work only for Touch Motion Event.",
          self |-> self]
    ELSE LET ref == weakref_ref(class_instance)
             s1 == IF exclusive
                   THEN [self EXCEPT !.grab_exclusive_class = ref]
                   ELSE self
         IN  [raised |-> "ok",
              self |-> [s1 EXCEPT !.grab_list = Append(s1.grab_list, ref)]]

\* MotionEvent.grab
grab(self, class_instance, exclusive) ==
    IF ~self.is_touch
    THEN [raised |-> "Exception: Grab work only for Touch Motion Event.",
          self |-> self]
    ELSE IF self.grab_exclusive_class # None
    THEN [raised |-> "Exception: Cannot grab the touch, touch are exclusive",
          self |-> self]
    ELSE LET ref == weakref_ref(class_instance)
             s1 == IF exclusive
                   THEN [self EXCEPT !.grab_exclusive_class = ref]
                   ELSE self
         IN  [raised |-> "ok",
              self |-> [s1 EXCEPT !.grab_list = Append(s1.grab_list, ref)]]

\* ungrab that clears the exclusive claimant whoever calls it
ungrab_ClearsAnyExclusive(self, class_instance) ==
    LET ref == weakref_ref(class_instance)
        s1 == [self EXCEPT !.grab_exclusive_class = None]
    IN  [raised |-> "ok",
         self |-> IF IndexOf(s1.grab_list, ref) # 0
                  THEN [s1 EXCEPT !.grab_list = list_remove(s1.grab_list, ref)]
                  ELSE s1]

\* ungrab without "if class_instance in self.grab_list": it drops the last
\* entry when the caller has none
ungrab_NoMembershipTest(self, class_instance) ==
    LET ref == weakref_ref(class_instance)
        s1 == IF self.grab_exclusive_class = ref
              THEN [self EXCEPT !.grab_exclusive_class = None]
              ELSE self
        n == Len(s1.grab_list)
    IN  [raised |-> "ok",
         self |-> IF IndexOf(s1.grab_list, ref) # 0
                  THEN [s1 EXCEPT !.grab_list = list_remove(s1.grab_list, ref)]
                  ELSE IF n > 0
                  THEN [s1 EXCEPT !.grab_list = SubSeq(s1.grab_list, 1, n - 1)]
                  ELSE s1]

\* ungrab removing every entry of the claimant
ungrab_RemovesAll(self, class_instance) ==
    LET ref == weakref_ref(class_instance)
        s1 == IF self.grab_exclusive_class = ref
              THEN [self EXCEPT !.grab_exclusive_class = None]
              ELSE self
    IN  [raised |-> "ok",
         self |-> [s1 EXCEPT !.grab_list = SelectSeq(s1.grab_list, LAMBDA r : r # ref)]]

\* MotionEvent.ungrab
ungrab(self, class_instance) ==
    LET ref == weakref_ref(class_instance)
        s1 == IF self.grab_exclusive_class = ref
              THEN [self EXCEPT !.grab_exclusive_class = None]
              ELSE self
    IN  [raised |-> "ok",
         self |-> IF IndexOf(s1.grab_list, ref) # 0
                  THEN [s1 EXCEPT !.grab_list = list_remove(s1.grab_list, ref)]
                  ELSE s1]

\* move that forgets to shift the normalized position into the previous one
move_KeepsPrevious(self, args) ==
    LET s1 == [self EXCEPT !.px = Some(self.x), !.py = Some(self.y),
                           !.pz = Some(self.z)]
    IN  [raised |-> "ok", self |-> depack(unpack(s1, args))]

\* MotionEvent.move
move(self, args) ==
    LET s1 == [self EXCEPT !.px = Some(self.x), !.py = Some(self.y),
                           !.pz = Some(self.z),
                           !.psx = Some(self.sx), !.psy = Some(self.sy),
                           !.psz = Some(self.sz)]
    IN  [raised |-> "ok", self |-> depack(unpack(s1, args))]

\* the 90 and 270 branches taken for each other
rotate_QuarterTurnsSwapped(sx, sy, w, h, rotation) ==
    IF rotation = 0 THEN Some(<<sx * w, sy * h>>)
    ELSE IF rotation = 270 THEN Some(<<sy * h, (Den - sx) * w>>)
    ELSE IF rotation = 180 THEN Some(<<(Den - sx) * w, (Den - sy) * h>>)
    ELSE IF rotation = 90 THEN Some(<<(Den - sy) * h, sx * w>>)
    ELSE None

(* The rotation table of scale_for_screen: the (x, y) it assigns, or None  *)
(* when no branch matches the rotation.                                    *)
rotate(sx, sy, w, h, rotation) ==
    IF rotation = 0 THEN Some(<<sx * w, sy * h>>)
    ELSE IF rotation = 90 THEN Some(<<sy * h, (Den - sx) * w>>)
    ELSE IF rotation = 180 THEN Some(<<(Den - sx) * w, (Den - sy) * h>>)
    ELSE IF rotation = 270 THEN Some(<<(Den - sy) * h, sx * w>>)
    ELSE None

\* scale_for_screen without "if self.ox is None": every call seeds the
\* origin and the previous position again
scale_for_screen_AlwaysSeeds(self, w, h, p, rotation) ==
    LET xy == rotate(self.sx, self.sy, w, h, rotation)
        s1 == IF xy # None
              THEN [self EXCEPT !.x = Val(xy)[1], !.y = Val(xy)[2]]
              ELSE self
        s2 == IF p # None /\ Val(p) # 0
              THEN [s1 EXCEPT !.z = s1.sz * Val(p)]
              ELSE s1
        s3 == [s2 EXCEPT !.px = Some(s2.x), !.ox = Some(s2.x),
                         !.py = Some(s2.y), !.oy = Some(s2.y),
                         !.pz = Some(s2.z), !.oz = Some(s2.z)]
    IN  [raised |-> "ok",
         self |-> [s3 EXCEPT !.dx = Some(s3.x - Val(s3.px)),
                             !.dy = Some(s3.y - Val(s3.py)),
                             !.dz = Some(s3.z - Val(s3.pz)),
                             !.pos = <<s3.x, s3.y>>]]

\* scale_for_screen taking the delta from the origin instead of the
\* previous position
scale_for_screen_DeltaFromOrigin(self, w, h, p, rotation) ==
    LET xy == rotate(self.sx, self.sy, w, h, rotation)
        s1 == IF xy # None
              THEN [self EXCEPT !.x = Val(xy)[1], !.y = Val(xy)[2]]
              ELSE self
        s2 == IF p # None /\ Val(p) # 0
              THEN [s1 EXCEPT !.z = s1.sz * Val(p)]
              ELSE s1
        s3 == IF s2.ox = None
              THEN [s2 EXCEPT !.px = Some(s2.x), !.ox = Some(s2.x),
                              !.py = Some(s2.y), !.oy = Some(s2.y),
                              !.pz = Some(s2.z), !.oz = Some(s2.z)]
              ELSE s2
    IN  [raised |-> "ok",
         self |-> [s3 EXCEPT !.dx = Some(s3.x - Val(s3.ox)),
                             !.dy = Some(s3.y - Val(s3.oy)),
                             !.dz = Some(s3.z - Val(s3.oz)),
                             !.pos = <<s3.x, s3.y>>]]

\* scale_for_screen first making the current position the previous one
scale_for_screen_ShiftsPrevious(self, w, h, p, rotation) ==
    LET s0 == IF self.ox # None
              THEN [self EXCEPT !.px = Some(self.x), !.py = Some(self.y),
                                !.pz = Some(self.z)]
              ELSE self
        xy == rotate(s0.sx, s0.sy, w, h, rotation)
        s1 == IF xy # None
              THEN [s0 EXCEPT !.x = Val(xy)[1], !.y = Val(xy)[2]]
              ELSE s0
        s2 == IF p # None /\ Val(p) # 0
              THEN [s1 EXCEPT !.z = s1.sz * Val(p)]
              ELSE s1
        s3 == IF s2.ox = None
              THEN [s2 EXCEPT !.px = Some(s2.x), !.ox = Some(s2.x),
                              !.py = Some(s2.y), !.oy = Some(s2.y),
                              !.pz = Some(s2.z), !.oz = Some(s2.z)]
              ELSE s2
    IN  [raised |-> "ok",
         self |-> [s3 EXCEPT !.dx = Some(s3.x - Val(s3.px)),
                             !.dy = Some(s3.y - Val(s3.py)),
                             !.dz = Some(s3.z - Val(s3.pz)),
                             !.pos = <<s3.x, s3.y>>]]

\* scale_for_screen returning at once when no branch matches the rotation
scale_for_screen_SkipsUnsupported(self, w, h, p, rotation) ==
    LET xy == rotate(self.sx, self.sy, w, h, rotation)
        s1 == IF xy # None
              THEN [self EXCEPT !.x = Val(xy)[1], !.y = Val(xy)[2]]
              ELSE self
        s2 == IF p # None /\ Val(p) # 0
              THEN [s1 EXCEPT !.z = s1.sz * Val(p)]
              ELSE s1
        s3 == IF s2.ox = None
              THEN [s2 EXCEPT !.px = Some(s2.x), !.ox = Some(s2.x),
                              !.py = Some(s2.y), !.oy = Some(s2.y),
                              !.pz = Some(s2.z), !.oz = Some(s2.z)]
              ELSE s2
    IN  IF xy = None
        THEN [raised |-> "ok", self |-> self]
        ELSE [raised |-> "ok",
              self |-> [s3 EXCEPT !.dx = Some(s3.x - Val(s3.px)),
                                  !.dy = Some(s3.y - Val(s3.py)),
                                  !.dz = Some(s3.z - Val(s3.pz)),
                                  !.pos = <<s3.x, s3.y>>]]

\* MotionEvent.scale_for_screen; p is None or Some(perspective)
scale_for_screen(self, w, h, p, rotation) ==
    LET xy == rotate(self.sx, self.sy, w, h, rotation)
        s1 == IF xy # None
              THEN [self EXCEPT !.x = Val(xy)[1], !.y = Val(xy)[2]]
              ELSE self
        s2 == IF p # None /\ Val(p) # 0
              THEN [s1 EXCEPT !.z = s1.sz * Val(p)]
              ELSE s1
        s3 == IF s2.ox = None
              THEN [s2 EXCEPT !.px = Some(s2.x), !.ox = Some(s2.x),
                              !.py = Some(s2.y), !.oy = Some(s2.y),
                              !.pz = Some(s2.z), !.oz = Some(s2.z)]
              ELSE s2
    IN  [raised |-> "ok",
         self |-> [s3 EXCEPT !.dx = Some(s3.x - Val(s3.px)),
                             !.dy = Some(s3.y - Val(s3.py)),
                             !.dz = Some(s3.z - Val(s3.pz)),
                             !.pos = <<s3.x, s3.y>>]]

\* MotionEvent.push with attrs=None
push(self) ==
    LET attrs == self.push_attrs
        values == [i \in 1..Len(attrs) |-> self[attrs[i]]]
    IN  [raised |-> "ok",
         self |-> [self EXCEPT !.push_attrs_stack.items =
                       Append(@, [attrs |-> attrs, values |-> values])]]

\* pop taking the oldest snapshot instead of the newest
pop_Oldest(self) ==
    IF self.push_attrs_stack.items = <<>>
    THEN [raised |-> "IndexError", self |-> self]
    ELSE LET n == Len(self.push_attrs_stack.items)
             top == self.push_attrs_stack.items[1]
             s1 == [self EXCEPT !.push_attrs_stack.items = SubSeq(@, 2, n)]
         IN  [raised |-> "ok",
              self |-> [a \in DOMAIN s1 |->
                           IF \E i \in 1..Len(top.attrs) : top.attrs[i] = a
                           THEN top.values[CHOOSE i \in 1..Len(top.attrs) : top.attrs[i] = a]
                           ELSE s1[a]]]

\* pop returning quietly when there is no snapshot
pop_EmptyReturns(self) ==
    IF self.push_attrs_stack.items = <<>>
    THEN [raised |-> "ok", self |-> self]
    ELSE LET n == Len(self.push_attrs_stack.items)
             top == self.push_attrs_stack.items[n]
             s1 == [self EXCEPT !.push_attrs_stack.items = SubSeq(@, 1, n - 1)]
         IN  [raised |-> "ok",
              self |-> [a \in DOMAIN s1 |->
                           IF \E i \in 1..Len(top.attrs) : top.attrs[i] = a
                           THEN top.values[CHOOSE i \in 1..Len(top.attrs) : top.attrs[i] = a]
                           ELSE s1[a]]]

\* MotionEvent.pop
pop(self) ==
    IF self.push_attrs_stack.items = <<>>
    THEN [raised |-> "IndexError", self |-> self]
    ELSE LET n == Len(self.push_attrs_stack.items)
             top == self.push_attrs_stack.items[n]
             s1 == [self EXCEPT !.push_attrs_stack.items = SubSeq(@, 1, n - 1)]
             Last(a) == CHOOSE i \in 1..Len(top.attrs) :
                            /\ top.attrs[i] = a
                            /\ \A j \in (i + 1)..Len(top.attrs) : top.attrs[j] # a
         IN  [raised |-> "ok",
              self |-> [a \in DOMAIN s1 |->
                           IF \E i \in 1..Len(top.attrs) : top.attrs[i] = a
                           THEN top.values[Last(a)]
                           ELSE s1[a]]]

(* The caller's 2D mappings, on screen coordinates; each does arithmetic   *)
(* on its arguments, so it raises TypeError when handed None.              *)
Transforms == {"mirror", "shift"}

transform(t, x, y) ==
    IF t = "mirror" THEN <<MaxCoord - x, MaxCoord - y>> ELSE <<x + 1, y + 2>>

\* MotionEvent.apply_transform_2d
apply_transform_2d(self, t) ==
    LET xy == transform(t, self.x, self.y)
        s1 == [self EXCEPT !.x = xy[1], !.y = xy[2], !.pos = xy]
    IN  IF s1.px = None \/ s1.py = None
        THEN [raised |-> "TypeError", self |-> s1]
        ELSE LET pxy == transform(t, Val(s1.px), Val(s1.py))
                 s2 == [s1 EXCEPT !.px = Some(pxy[1]), !.py = Some(pxy[2])]
             IN  IF s2.ox = None \/ s2.oy = None
                 THEN [raised |-> "TypeError", self |-> s2]
                 ELSE LET oxy == transform(t, Val(s2.ox), Val(s2.oy))
                          s3 == [s2 EXCEPT !.ox = Some(oxy[1]), !.oy = Some(oxy[2])]
                      IN  [raised |-> "ok",
                           self |-> [s3 EXCEPT !.dx = Some(s3.x - Val(s3.px)),
                                               !.dy = Some(s3.y - Val(s3.py))]]

\* copy_to assigning the source's value itself, with no copy()
copy_SameObject(self, to, attr) == self[attr]

(* copy(value) as copy_to uses it, on the attribute attr of self.  A       *)
(* shallow copy of the snapshot stack is a new list with the same items;   *)
(* the new list is named after the target that receives it and the count   *)
(* of lists the target was given before.  The other attributes hold        *)
(* values that no method changes in place, so their copy is the value.     *)
copy(self, to, attr) ==
    IF attr = "push_attrs_stack"
    THEN list(<<to.uid, to.push_attrs_stack.id[2] + 1>>, self.push_attrs_stack.items)
    ELSE self[attr]

\* MotionEvent.copy_to: the target afterwards
copy_to(self, to) ==
    [raised |-> "ok",
     self |-> [a \in DOMAIN to |->
                  IF \E i \in 1..Len(__attrs__) : __attrs__[i] = a
                  THEN copy(self, to, a)
                  ELSE to[a]]]

----------------------------------------------------------------------------
(* The state machine.                                                      *)

Init ==
    /\ uniq_id = 0
    /\ events = <<>>
    /\ live = Claimants
    /\ call = <<"start", 0, 0, FALSE>>
    /\ result = "ok"
    /\ excl_grants = <<>>
    /\ nops = 0

Constructed == 1..Len(events)

\* The effect of a method call on event e that returned or raised r.
(* The snapshot stack is changed in place, so every event that holds the   *)
(* same list object sees the change.                                       *)
Called(op, e, other, exclusive, r) ==
    /\ events' = [i \in 1..Len(events) |->
                     IF i = e THEN r.self
                     ELSE IF events[i].push_attrs_stack.id = events[e].push_attrs_stack.id
                          THEN [events[i] EXCEPT !.push_attrs_stack =
                                    list(@.id, r.self.push_attrs_stack.items)]
                          ELSE events[i]]
    /\ call' = <<op, e, other, exclusive>>
    /\ result' = r.raised

\* An input provider constructs an event of class cls.
Construct(cls, device, id, args) ==
    LET r == MotionEvent_init(cls, uniq_id, device, id, args)
    IN  /\ r.raised = "ok" => Len(events) < MaxEvents
        /\ uniq_id' = r.uniq_id
        /\ events' = IF r.raised = "ok" THEN Append(events, r.self) ELSE events
        /\ excl_grants' = IF r.raised = "ok" THEN Append(excl_grants, 0)
                          ELSE excl_grants
        /\ call' = <<"__init__", IF r.raised = "ok" THEN Len(events) + 1 ELSE 0,
                     0, FALSE>>
        /\ result' = r.raised
        /\ UNCHANGED live

\* A live claimant c calls events[e].grab(c, exclusive).
Grab(e, c, exclusive) ==
    LET r == grab(events[e], c, exclusive)
        granted == r.raised = "ok"
    IN  /\ c \in live
        /\ granted => Len(events[e].grab_list) < MaxGrabs
        /\ granted /\ exclusive => excl_grants[e] < MaxExclGrants
        /\ Called("grab", e, c, exclusive, r)
        /\ excl_grants' = IF granted /\ exclusive
                          THEN [excl_grants EXCEPT ![e] = @ + 1]
                          ELSE excl_grants
        /\ UNCHANGED <<uniq_id, live>>

\* A live claimant c calls events[e].ungrab(c).
Ungrab(e, c) ==
    /\ c \in live
    /\ Called("ungrab", e, c, FALSE, ungrab(events[e], c))
    /\ UNCHANGED <<uniq_id, live, excl_grants>>

\* The references made with a callback that drops a dead claimant's entries.
destroy_Purges(evs, c) ==
    [e \in 1..Len(evs) |->
        [evs[e] EXCEPT !.grab_list =
            SelectSeq(evs[e].grab_list, LAMBDA ref : ref # weakref_ref(c))]]

(* Claimant c is destroyed.  The references to it were made by             *)
(* weakref.ref(class_instance) with no callback, so nothing of any event   *)
(* is told: its references stay where they are and are dead.               *)
destroy(evs, c) == evs

Destroy(c) ==
    /\ c \in live
    /\ live' = live \ {c}
    /\ events' = destroy(events, c)
    /\ call' = <<"del", 0, c, FALSE>>
    /\ result' = "ok"
    /\ UNCHANGED <<uniq_id, excl_grants>>

\* The provider moves events[e]; the payload keeps the event's profile.
Move(e, args) ==
    /\ args.profile = events[e].profile
    /\ Called("move", e, 0, FALSE, move(events[e], args))
    /\ UNCHANGED <<uniq_id, live, excl_grants>>

ScaleForScreen(e, w, h, p, rotation) ==
    /\ Called("scale_for_screen", e, <<w, h, p, rotation>>, FALSE,
              scale_for_screen(events[e], w, h, p, rotation))
    /\ UNCHANGED <<uniq_id, live, excl_grants>>

InRange(o) == IF o = None THEN TRUE ELSE Val(o) >= -MaxCoord /\ Val(o) <= 2 * MaxCoord

ApplyTransform2d(e, t) ==
    LET r == apply_transform_2d(events[e], t)
    IN  /\ InRange(Some(r.self.x)) /\ InRange(Some(r.self.y))
        /\ InRange(r.self.px) /\ InRange(r.self.py)
        /\ InRange(r.self.ox) /\ InRange(r.self.oy)
        /\ Called("apply_transform_2d", e, 0, FALSE, r)
        /\ UNCHANGED <<uniq_id, live, excl_grants>>

Push(e) ==
    /\ Len(events[e].push_attrs_stack.items) < MaxStack
    /\ Called("push", e, 0, FALSE, push(events[e]))
    /\ UNCHANGED <<uniq_id, live, excl_grants>>

Pop(e) ==
    /\ Called("pop", e, 0, FALSE, pop(events[e]))
    /\ UNCHANGED <<uniq_id, live, excl_grants>>

\* events[s].copy_to(events[t])
CopyTo(s, t) ==
    /\ s # t
    /\ Called("copy_to", t, s, FALSE, copy_to(events[s], events[t]))
    /\ UNCHANGED <<uniq_id, live, excl_grants>>

----------------------------------------------------------------------------
(* Inputs.                                                                 *)

Classes == {"MotionEvent", "MouseMotionEvent"}
Profiles == {<<"pos">>, <<>>}

Payloads(positions) ==
    {[sx |-> q[1], sy |-> q[2], sz |-> q[3], profile |-> pr] :
        q \in positions, pr \in Profiles}

\* <<w, h, p, rotation>>
Projections(sizes, ps, rotations) ==
    {<<wh[1], wh[2], p, rot>> : wh \in sizes, p \in ps, rot \in rotations}

\* A call counted against a budget of n calls.
Counted(n) == nops < n /\ nops' = nops + 1

(* Spec: every operation on up to MaxEvents events, with one payload       *)
(* position besides the initial one, one projection and one transform, in  *)
(* runs of up to MaxCalls calls.                                           *)
PositionsAll == {<<1, Den, 1>>}
ProjectionsAll == Projections({<<2, 3>>}, {Some(2)}, {90})

Next ==
    \/ \E cls \in Classes, a \in Payloads(PositionsAll) :
           Construct(cls, "mouse", "mouse1", a) /\ Counted(MaxCalls)
    \/ \E e \in Constructed, c \in Claimants, x \in BOOLEAN :
           Grab(e, c, x) /\ Counted(MaxCalls)
    \/ \E e \in Constructed, c \in Claimants : Ungrab(e, c) /\ Counted(MaxCalls)
    \/ \E c \in Claimants : Destroy(c) /\ Counted(MaxCalls)
    \/ \E e \in Constructed, a \in Payloads(PositionsAll) :
           Move(e, a) /\ Counted(MaxCalls)
    \/ \E e \in Constructed, pj \in ProjectionsAll :
           ScaleForScreen(e, pj[1], pj[2], pj[3], pj[4]) /\ Counted(MaxCalls)
    \/ \E e \in Constructed : ApplyTransform2d(e, "mirror") /\ Counted(MaxCalls)
    \/ \E e \in Constructed : Push(e) /\ Counted(MaxCalls)
    \/ \E e \in Constructed : Pop(e) /\ Counted(MaxCalls)
    \/ \E s \in Constructed, t \in Constructed : CopyTo(s, t) /\ Counted(MaxCalls)

Spec == Init /\ [][Next]_vars

(* SpecGrab: the grab registry of one event, touch or not, and the lives   *)
(* of the claimants, in runs of any length.  grab and ungrab read and      *)
(* write one event only, so one event is followed.                         *)
NextGrab ==
    \/ /\ events = <<>>
       /\ \E cls \in Classes, a \in Payloads(PositionsAll) :
              Construct(cls, "mouse", "mouse1", a) /\ UNCHANGED nops
    \/ \E e \in Constructed, c \in Claimants, x \in BOOLEAN :
           Grab(e, c, x) /\ UNCHANGED nops
    \/ \E e \in Constructed, c \in Claimants : Ungrab(e, c) /\ UNCHANGED nops
    \/ \E c \in Claimants : Destroy(c) /\ UNCHANGED nops

SpecGrab == Init /\ [][NextGrab]_vars

(* SpecCoord: the coordinates and the snapshot stack of one event, in runs *)
(* of up to MaxOps calls.  None of these operations reads or writes        *)
(* another event, so one event is followed, through every payload,         *)
(* projection and transform below.                                         *)
PositionsCoord == {<<0, Den, 0>>, <<Den, 1, 1>>}
ProjectionsCoord == Projections({<<2, 3>>}, {None, Some(2)}, {0, 90, 45})

NextCoord ==
    \/ /\ events = <<>>
       /\ \E a \in Payloads(PositionsCoord) :
              Construct("MouseMotionEvent", "mouse", "mouse1", a) /\ Counted(MaxOps)
    \/ \E e \in Constructed, a \in Payloads(PositionsCoord) :
           Move(e, a) /\ Counted(MaxOps)
    \/ \E e \in Constructed, pj \in ProjectionsCoord :
           ScaleForScreen(e, pj[1], pj[2], pj[3], pj[4]) /\ Counted(MaxOps)
    \/ \E e \in Constructed, t \in Transforms :
           ApplyTransform2d(e, t) /\ Counted(MaxOps)
    \/ \E e \in Constructed : Push(e) /\ Counted(MaxOps)
    \/ \E e \in Constructed : Pop(e) /\ Counted(MaxOps)

SpecCoord == Init /\ [][NextCoord]_vars

(* SpecProject: the projections of one event that is constructed at any    *)
(* normalized position of the grid and then projected, any number of       *)
(* times, onto either window in each of the four supported rotations.      *)
PositionsProject == {<<a, b, 1>> : a \in 0..Den, b \in 0..Den}
ProjectionsProject == Projections({<<200, 100>>, <<2, 3>>}, {None}, {0, 90, 180, 270})

NextProject ==
    \/ /\ events = <<>>
       /\ \E a \in Payloads(PositionsProject) :
              Construct("MouseMotionEvent", "mouse", "mouse1", a) /\ UNCHANGED nops
    \/ \E e \in Constructed, pj \in ProjectionsProject :
           ScaleForScreen(e, pj[1], pj[2], pj[3], pj[4]) /\ UNCHANGED nops

SpecProject == Init /\ [][NextProject]_vars

----------------------------------------------------------------------------
(* The grab registry (SpecGrab).                                           *)

GrabCalled(e) == call'[1] = "grab" /\ call'[2] = e
UngrabCalled(e) == call'[1] = "ungrab" /\ call'[2] = e
Exclusive(e) == events[e].grab_exclusive_class

(* C1: while an exclusive claimant is recorded on an event, every grab     *)
(* call on it, exclusive or not and by any live claimant, raises and       *)
(* leaves the event (grab_list and grab_exclusive_class with it) as it was.*)
C1_GrabFailsWhileExclusive ==
    [][\A e \in Constructed :
          GrabCalled(e) /\ Exclusive(e) # None
          => /\ result' = "Exception: Cannot grab the touch, touch are exclusive"
             /\ events'[e] = events[e]]_vars

\* The exclusive claimant itself asked for a second, plain grab and was refused.
C1_Witness ==
    /\ call[1] = "grab" /\ call[4] = FALSE
    /\ result = "Exception: Cannot grab the touch, touch are exclusive"
    /\ events[call[2]].grab_exclusive_class = weakref_ref(call[3])

(* C2 as claimed: over any run, at most one exclusive grab of an event     *)
(* ever succeeds, also after the exclusive claimant has called ungrab.     *)
C2_ExclusiveGrantedOnce ==
    \A e \in Constructed : excl_grants[e] <= 1

(* C2, amended: exclusivity is held by at most one claimant at a time.     *)
(* The exclusive claimant of an event changes only from empty to c, by a   *)
(* successful grab(c, exclusive=True) made while it is empty, and back to  *)
(* empty, by ungrab(c) of that same c; every successful exclusive grab     *)
(* finds it empty.                                                         *)
C2_ExclusiveOneAtATime ==
    [][\A e \in Constructed :
          /\ Exclusive(e)' # Exclusive(e)
             => \/ /\ Exclusive(e) = None
                   /\ call' = <<"grab", e, Val(Exclusive(e)'), TRUE>>
                   /\ result' = "ok"
                \/ /\ Exclusive(e)' = None
                   /\ call' = <<"ungrab", e, Val(Exclusive(e)), FALSE>>
          /\ GrabCalled(e) /\ call'[4] /\ result' = "ok"
             => /\ Exclusive(e) = None
                /\ Exclusive(e)' = weakref_ref(call'[3])]_vars

\* A second exclusive grab of the same event succeeded.
C2_Witness ==
    \E e \in Constructed :
        /\ excl_grants[e] = 2
        /\ call = <<"grab", e, Val(Exclusive(e)), TRUE>>
        /\ result = "ok"

(* C4: ungrab(c) by a live claimant c that has no entry in grab_list and   *)
(* is not the exclusive claimant raises nothing and leaves the event as it *)
(* was, whatever the other claimants hold.                                 *)
C4_UngrabOfStrangerIsNoOp ==
    [][\A e \in Constructed :
          /\ UngrabCalled(e)
          /\ IndexOf(events[e].grab_list, weakref_ref(call'[3])) = 0
          /\ Exclusive(e) # weakref_ref(call'[3])
          => result' = "ok" /\ events'[e] = events[e]]_vars

(* ungrab(c) was called while the list was full of another claimant's      *)
(* entries, one of them exclusive: nothing can have been removed.          *)
C4_Witness ==
    /\ call[1] = "ungrab" /\ result = "ok"
    /\ Len(events[call[2]].grab_list) = MaxGrabs
    /\ IndexOf(events[call[2]].grab_list, weakref_ref(call[3])) = 0
    /\ events[call[2]].grab_exclusive_class # None

(* C5 as claimed: grab_list holds no entry whose claimant was destroyed.   *)
C5_NoDeadEntries ==
    \A e \in Constructed : \A i \in 1..Len(events[e].grab_list) :
        Deref(events[e].grab_list[i], live) # None

(* C5, amended: grab_list holds no ownership, and destroying a claimant    *)
(* removes nothing: the destruction leaves every event as it is, so the    *)
(* claimant's entries stay in grab_list as dead references, and an entry   *)
(* leaves a grab_list only by ungrab.                                      *)
C5_DeadEntriesStay ==
    [][/\ call'[1] = "del" => events' = events
       /\ \A e \in Constructed :
              Len(events'[e].grab_list) < Len(events[e].grab_list)
              => UngrabCalled(e)]_vars

\* A claimant was destroyed while it had an entry, and the entry is dead.
C5_Witness ==
    /\ call[1] = "del"
    /\ \E e \in Constructed : \E i \in 1..Len(events[e].grab_list) :
           /\ events[e].grab_list[i] = weakref_ref(call[3])
           /\ Deref(events[e].grab_list[i], live) = None

----------------------------------------------------------------------------
(* Every operation together (Spec).                                        *)

(* C3 as claimed: a non-touch event's grab_list is empty and its exclusive *)
(* claimant is empty in every reachable state.                             *)
C3_NonTouchHoldsNoGrab ==
    \A e \in Constructed :
        ~events[e].is_touch
        => events[e].grab_list = <<>> /\ events[e].grab_exclusive_class = None

(* C3, amended: grab on an event whose is_touch is false raises, for every *)
(* claimant and every value of exclusive, and leaves the event as it was;  *)
(* so while its is_touch is false an event's grab_list gains no entry and  *)
(* no exclusive claimant is recorded on it.  (It may hold earlier grabs:   *)
(* is_touch is among the attributes copy_to writes.)                       *)
C3_NonTouchGrabFails ==
    [][\A e \in Constructed :
          ~events[e].is_touch
          => /\ GrabCalled(e)
                => /\ result' = "Exception: Grab work only for Touch Motion Event."
                   /\ events'[e] = events[e]
             /\ Len(events'[e].grab_list) <= Len(events[e].grab_list)
             /\ Exclusive(e)' \in {Exclusive(e), None}]_vars

\* An exclusive grab of a non-touch event was refused.
C3_Witness ==
    /\ call[1] = "grab" /\ call[4] = TRUE
    /\ result = "Exception: Grab work only for Touch Motion Event."
    /\ ~events[call[2]].is_touch

(* C6: no two events ever have the same uid, uids strictly increase in     *)
(* construction order, whatever constructions failed in between, and no    *)
(* operation (move, scale_for_screen, apply_transform_2d, push, pop, grab, *)
(* ungrab, copy_to as source or target) changes the uid of an event.       *)
C6_UidUniqueAndImmutable ==
    /\ [](\A i \in Constructed : \A j \in Constructed :
              i < j => events[i].uid < events[j].uid)
    /\ [][\A i \in Constructed : events'[i].uid = events[i].uid]_vars

\* Two events exist and the second was just copied onto the first.
C6_Witness ==
    /\ Len(events) = 2
    /\ call = <<"copy_to", 1, 2, FALSE>>
    /\ events[1].sx = events[2].sx
    /\ events[1].uid = 1 /\ events[2].uid = 2

----------------------------------------------------------------------------
(* Coordinates of one event (SpecCoord).                                   *)

NormOrigin(ev) == <<ev.osx, ev.osy, ev.osz>>
NormPrevious(ev) == <<ev.psx, ev.psy, ev.psz>>
NormCurrent(ev) == <<Some(ev.sx), Some(ev.sy), Some(ev.sz)>>
ScreenOrigin(ev) == <<ev.ox, ev.oy, ev.oz>>
ScreenPrevious(ev) == <<ev.px, ev.py, ev.pz>>
ScreenCurrent(ev) == <<Some(ev.x), Some(ev.y), Some(ev.z)>>
ScreenDelta(ev) == <<ev.dx, ev.dy, ev.dz>>

\* d = Some(a - b), with a false answer where b is None
IsDiff(d, a, b) == IF b = None THEN FALSE ELSE d = Some(a - Val(b))

(* C7: the normalized origin (osx, osy, osz) is set at construction to the *)
(* first normalized position, and no later move, scale_for_screen,         *)
(* apply_transform_2d, push or pop of the event changes it.                *)
C7_NormalizedOriginSetOnce ==
    [][/\ call'[1] = "__init__" /\ result' = "ok"
          => NormOrigin(events'[call'[2]]) = NormCurrent(events'[call'[2]])
       /\ \A e \in Constructed :
              NormOrigin(events'[e]) = NormOrigin(events[e])]_vars

\* The event moved away from its origin and was then projected and pushed.
C7_Witness ==
    /\ call[1] = "push"
    /\ events[1].ox # None
    /\ NormCurrent(events[1]) # NormOrigin(events[1])
    /\ NormPrevious(events[1]) # NormOrigin(events[1])

(* C8 as claimed: once set, the screen origin (ox, oy, oz) never changes,  *)
(* whatever move, scale_for_screen, apply_transform_2d, push and pop calls *)
(* follow.                                                                 *)
C8_ScreenOriginNeverChanges ==
    [][\A e \in Constructed :
          events[e].ox # None
          => ScreenOrigin(events'[e]) = ScreenOrigin(events[e])]_vars

(* C8, amended: the screen origin is set by the first scale_for_screen     *)
(* call, to the position that call computes, and no later move,            *)
(* scale_for_screen or push changes it; apply_transform_2d maps (ox, oy)   *)
(* through the transform and leaves oz, and pop puts (ox, oy, oz) back to  *)
(* what the matching push saw, unset included.                             *)
C8_ScreenOriginChangesByTransformAndPop ==
    [][\A e \in Constructed :
          ScreenOrigin(events'[e]) # ScreenOrigin(events[e])
          => \/ /\ call'[1] = "scale_for_screen"
                /\ events[e].ox = None
                /\ ScreenOrigin(events'[e]) = ScreenCurrent(events'[e])
             \/ /\ call'[1] = "apply_transform_2d" /\ result' = "ok"
                /\ events[e].ox # None
                /\ events'[e].oz = events[e].oz
                /\ \E t \in Transforms :
                       <<Val(events'[e].ox), Val(events'[e].oy)>>
                           = transform(t, Val(events[e].ox), Val(events[e].oy))
             \/ /\ call'[1] = "pop" /\ result' = "ok"
                /\ LET top == events[e].push_attrs_stack.items[Len(events[e].push_attrs_stack.items)]
                   IN  ScreenOrigin(events'[e])
                           = <<top.values[7], top.values[8], top.values[9]>>]_vars

(* A second projection, at another position, left the origin where the     *)
(* first one had put it.                                                   *)
C8_Witness ==
    /\ call[1] = "scale_for_screen"
    /\ events[1].ox # None
    /\ events[1].dx # Some(0)
    /\ events[1].ox = events[1].px
    /\ events[1].ox # Some(events[1].x)

(* C9: in every reachable state of a constructed event the normalized      *)
(* delta is current - previous, (dsx, dsy, dsz) = (sx - psx, sy - psy,     *)
(* sz - psz), and after each move (psx, psy, psz) is the (sx, sy, sz) held *)
(* just before the call.                                                   *)
C9_NormalizedDelta ==
    /\ [](\A e \in Constructed :
              /\ IsDiff(events[e].dsx, events[e].sx, events[e].psx)
              /\ IsDiff(events[e].dsy, events[e].sy, events[e].psy)
              /\ IsDiff(events[e].dsz, events[e].sz, events[e].psz))
    /\ [][\A e \in Constructed :
              call'[1] = "move" /\ call'[2] = e
              => NormPrevious(events'[e]) = NormCurrent(events[e])]_vars

\* A move that changed the position on all three axes.
C9_Witness ==
    /\ call[1] = "move"
    /\ events[1].dsx # Some(0) /\ events[1].dsy # Some(0) /\ events[1].dsz # Some(0)
    /\ NormPrevious(events[1]) # NormOrigin(events[1])

(* C10 as claimed: once scale_for_screen has set the screen coordinates,   *)
(* after each move, scale_for_screen and apply_transform_2d call           *)
(* (dx, dy, dz) = (x - px, y - py, z - pz).                                *)
C10_ScreenDeltaAfterEveryUpdate ==
    [][\A e \in Constructed :
          /\ events[e].ox # None
          /\ call'[1] \in {"move", "scale_for_screen", "apply_transform_2d"}
          /\ call'[2] = e
          => /\ IsDiff(events'[e].dx, events'[e].x, events'[e].px)
             /\ IsDiff(events'[e].dy, events'[e].y, events'[e].py)
             /\ IsDiff(events'[e].dz, events'[e].z, events'[e].pz)]_vars

(* C10, amended: after each scale_for_screen call (dx, dy, dz) =           *)
(* (x - px, y - py, z - pz), and after each apply_transform_2d call that   *)
(* returns (dx, dy) = (x - px, y - py); move does not recompute the screen *)
(* delta: it sets (px, py, pz) to the current (x, y, z) and leaves         *)
(* (x, y, z) and (dx, dy, dz) as they were, until the next                 *)
(* scale_for_screen.                                                       *)
C10_ScreenDeltaAfterProjection ==
    [][\A e \in Constructed :
          /\ call'[1] = "scale_for_screen" /\ call'[2] = e
             => /\ IsDiff(events'[e].dx, events'[e].x, events'[e].px)
                /\ IsDiff(events'[e].dy, events'[e].y, events'[e].py)
                /\ IsDiff(events'[e].dz, events'[e].z, events'[e].pz)
          /\ call'[1] = "apply_transform_2d" /\ call'[2] = e /\ result' = "ok"
             => /\ IsDiff(events'[e].dx, events'[e].x, events'[e].px)
                /\ IsDiff(events'[e].dy, events'[e].y, events'[e].py)
          /\ call'[1] = "move" /\ call'[2] = e
             => /\ ScreenPrevious(events'[e]) = ScreenCurrent(events[e])
                /\ ScreenCurrent(events'[e]) = ScreenCurrent(events[e])
                /\ ScreenDelta(events'[e]) = ScreenDelta(events[e])]_vars

\* A projection after a move: the delta is not zero on any axis.
C10_Witness ==
    /\ call[1] = "scale_for_screen"
    /\ events[1].dx \notin {None, Some(0)}
    /\ events[1].dy \notin {None, Some(0)}
    /\ events[1].dz \notin {None, Some(0)}
    /\ events[1].px # events[1].ox

----------------------------------------------------------------------------
(* The fresh event (SpecCoord).                                            *)

NormDelta(ev) == <<ev.dsx, ev.dsy, ev.dsz>>
Zeros == <<Some(0), Some(0), Some(0)>>
Nones == <<None, None, None>>
JustConstructed == call[1] = "__init__" /\ result = "ok"

----------------------------------------------------------------------------
(* The snapshot stack (SpecCoord).                                         *)

Stack(ev) == ev.push_attrs_stack.items
\* The values of the default attribute set of push, in its order.
DefaultValues(ev) == [i \in 1..Len(push_attrs) |-> ev[push_attrs[i]]]
OnEvent(op, e) == call'[1] = op /\ call'[2] = e

C13_PopOnEmptyStackRaises ==
    [][\A e \in Constructed :
          OnEvent("pop", e) /\ Stack(events[e]) = <<>>
          => /\ result' = "IndexError"
             /\ events'[e] = events[e]
             /\ Stack(events'[e]) = <<>>]_vars

\* A pop refused on a projected event that holds no snapshot.
C13_Witness ==
    /\ call = <<"pop", 1, 0, FALSE>> /\ result = "IndexError"
    /\ Stack(events[1]) = <<>>
    /\ events[1].ox # None /\ events[1].x # 0

----------------------------------------------------------------------------
(* Projection (SpecProject, SpecCoord).                                    *)

(* C14: scale_for_screen(w, h, rotation=r) sets (x, y) to (sx*w, sy*h)     *)
(* for r = 0, to (sy*h, (1 - sx)*w) for r = 90, to ((1 - sx)*w,            *)
(* (1 - sy)*h) for r = 180 and to ((1 - sy)*h, sx*w) for r = 270; so       *)
(* sx = 0.5, sy = 0.25, w = 200, h = 100, r = 90 gives x = 25, y = 100.    *)
(* Coordinates are numerators over Den: 1 - sx is Den - sx and x = 25 is   *)
(* 25 * Den.                                                               *)
C14_RotationTable ==
    [][\A e \in Constructed :
          OnEvent("scale_for_screen", e)
          => LET w == call'[3][1]
                 h == call'[3][2]
                 r == call'[3][4]
                 sx == events[e].sx
                 sy == events[e].sy
                 xy == <<events'[e].x, events'[e].y>>
             IN  /\ r = 0 => xy = <<sx * w, sy * h>>
                 /\ r = 90 => xy = <<sy * h, (Den - sx) * w>>
                 /\ r = 180 => xy = <<(Den - sx) * w, (Den - sy) * h>>
                 /\ r = 270 => xy = <<(Den - sy) * h, sx * w>>
                 /\ r = 90 /\ 2 * sx = Den /\ 4 * sy = Den /\ w = 200 /\ h = 100
                    => xy = <<25 * Den, 100 * Den>>]_vars

\* The worked example: sx = 1/2, sy = 1/4 on a 200 x 100 window turned by 90.
C14_Witness ==
    /\ call = <<"scale_for_screen", 1, <<200, 100, None, 90>>, FALSE>>
    /\ 2 * events[1].sx = Den /\ 4 * events[1].sy = Den
    /\ events[1].x = 25 * Den /\ events[1].y = 100 * Den
    /\ events[1].pos = <<25 * Den, 100 * Den>>

----------------------------------------------------------------------------
(* copy_to (Spec).                                                         *)

\* What an attribute holds: of a list, its items.
AttrValue(ev, a) == IF a = "push_attrs_stack" THEN Stack(ev) ELSE ev[a]

(* C15: source.copy_to(target) leaves in every attribute of __attrs__ of   *)
(* the target the value the source holds, and the two events share         *)
(* nothing afterwards: a move, scale_for_screen, apply_transform_2d, push  *)
(* or pop of an event changes no attribute of any other event, its         *)
(* snapshot stack included.                                                *)
C15_CopyIsIndependent ==
    [][/\ call'[1] = "copy_to"
          => \A i \in 1..Len(__attrs__) :
                 AttrValue(events'[call'[2]], __attrs__[i])
                     = AttrValue(events[call'[3]], __attrs__[i])
       /\ \A e \in Constructed :
              call'[1] \in {"move", "scale_for_screen", "apply_transform_2d",
                            "push", "pop"} /\ call'[2] = e
              => \A t \in Constructed \ {e} : events'[t] = events[t]]_vars

(* Event 2 was projected and copied onto event 1, and has just pushed a    *)
(* snapshot: the stack of event 1 is still the empty one it was given.     *)
C15_Witness ==
    /\ Len(events) = 2
    /\ call = <<"push", 2, 0, FALSE>>
    /\ events[1].push_attrs_stack.id = <<1, 1>>
    /\ events[2].ox # None /\ ScreenCurrent(events[1]) = ScreenCurrent(events[2])
    /\ Stack(events[1]) = <<>> /\ Len(Stack(events[2])) = 1

\* The call just made on e is scale_for_screen with the arguments of the
\* call before it, which was scale_for_screen on e too.
Reprojected(e) == OnEvent("scale_for_screen", e) /\ call' = call

(* C16 as claimed: a second scale_for_screen call with the arguments of    *)
(* the first and no move in between sets (px, py, pz) to the (x, y, z)     *)
(* held before it, so whenever the first call left previous different      *)
(* from current the event after the second call differs from the event     *)
(* after the first.                                                        *)
C16_ReprojectionShiftsPrevious ==
    [][\A e \in Constructed :
          Reprojected(e) /\ ScreenPrevious(events[e]) # ScreenCurrent(events[e])
          => /\ ScreenPrevious(events'[e]) = ScreenCurrent(events[e])
             /\ events'[e] # events[e]]_vars

(* C16, amended: scale_for_screen does not update the previous screen      *)
(* position: a call that finds the screen origin set leaves (px, py, pz)   *)
(* as they were.  A second call with the arguments of the first and no     *)
(* call in between changes nothing of the event, also when the first call  *)
(* left previous different from current: re-projection is idempotent.      *)
C16_ReprojectionIsIdempotent ==
    [][\A e \in Constructed :
          /\ (OnEvent("scale_for_screen", e) /\ events[e].ox # None
              => ScreenPrevious(events'[e]) = ScreenPrevious(events[e]))
          /\ (Reprojected(e) => events'[e] = events[e])]_vars

(* A projection with a supported rotation that left previous different     *)
(* from current on both axes, and after which the same call made again     *)
(* returns the event as it is.                                             *)
C16_Witness ==
    /\ call[1] = "scale_for_screen" /\ call[2] = 1 /\ call[3][4] = 90
    /\ events[1].px # Some(events[1].x) /\ events[1].py # Some(events[1].y)
    /\ events[1].dx # Some(0) /\ events[1].dy # Some(0)
    /\ nops < MaxOps
    /\ scale_for_screen(events[1], call[3][1], call[3][2], call[3][3],
                        call[3][4]).self = events[1]

----------------------------------------------------------------------------
(* Entries of the grab registry (SpecGrab).                                *)

\* The change of the number of entries of c that the call just made on e
\* accounts for: +1 for a successful grab(c), -1 for an ungrab(c) that
\* found an entry.
Accounted(e, c) ==
    IF GrabCalled(e) /\ call'[3] = c /\ result' = "ok" THEN 1
    ELSE IF UngrabCalled(e) /\ call'[3] = c
                /\ Count(events[e].grab_list, weakref_ref(c)) > 0 THEN -1
    ELSE 0

(* C17: ungrab(c) removes exactly one entry of c from grab_list, the first *)
(* one, keeps the other entries in their order, and clears the exclusive   *)
(* claimant iff it is c.  Every step changes the number of entries of c    *)
(* by +1 for a successful grab(c), by -1 for an ungrab(c) that found an    *)
(* entry and by nothing otherwise, so that number is the successful        *)
(* grab(c) calls minus the ungrab(c) calls that found an entry; and c is   *)
(* still in grab_list after ungrab(c) when it held more than one entry.    *)
C17_UngrabRemovesOneEntry ==
    [][\A e \in Constructed : \A c \in Claimants :
          LET ref == weakref_ref(c)
              gl == events[e].grab_list
              glp == events'[e].grab_list
              n == Len(gl)
          IN  /\ (UngrabCalled(e) /\ call'[3] = c /\ Count(gl, ref) > 0
                  => \E k \in 1..n :
                         /\ gl[k] = ref
                         /\ \A j \in 1..(k - 1) : gl[j] # ref
                         /\ glp = SubSeq(gl, 1, k - 1) \o SubSeq(gl, k + 1, n))
              /\ (UngrabCalled(e) /\ call'[3] = c
                  => Exclusive(e)' = IF Exclusive(e) = ref THEN None
                                     ELSE Exclusive(e))
              /\ Count(glp, ref) = Count(gl, ref) + Accounted(e, c)
              /\ (UngrabCalled(e) /\ call'[3] = c /\ Count(gl, ref) > 1
                  => Count(glp, ref) >= 1)]_vars

(* ungrab(1) has left an entry of claimant 1 behind the entry of claimant  *)
(* 2: it found one, so claimant 1 held more than one entry before.         *)
C17_Witness ==
    /\ call = <<"ungrab", 1, 1, FALSE>> /\ result = "ok"
    /\ events[1].grab_list = <<weakref_ref(2), weakref_ref(1)>>

(* C18: a destroyed claimant's entry is treated as absent.  When the       *)
(* exclusive claimant of a touch event has been destroyed without calling  *)
(* ungrab, its exclusive claim no longer blocks the event: a grab by a     *)
(* live claimant succeeds.                                                 *)
C18_DeadExclusiveClaimantDoesNotBlock ==
    [][\A e \in Constructed :
          /\ GrabCalled(e)
          /\ events[e].is_touch
          /\ Exclusive(e) # None
          /\ Deref(Exclusive(e), live) = None
          => result' = "ok"]_vars

(* C19: the cached pair pos equals (x, y) of the event in every reachable  *)
(* state: after construction and after any sequence of move,               *)
(* scale_for_screen, apply_transform_2d, default push, pop, and copy_to    *)
(* with the event as source or as target.                                  *)
C19_PosIsXY ==
    \A e \in Constructed : events[e].pos = <<events[e].x, events[e].y>>

\* The call just made on e is scale_for_screen with a rotation that is
\* none of 0, 90, 180 and 270.
UnsupportedRotation(e) ==
    OnEvent("scale_for_screen", e) /\ call'[3][4] \notin {0, 90, 180, 270}

(* C20 as claimed: scale_for_screen with a rotation outside 0, 90, 180,    *)
(* 270 raises nothing, leaves x and y as they were, and neither seeds nor  *)
(* alters the screen origin: when it is the first projection (ox, oy)      *)
(* stays unset.                                                            *)
C20_UnsupportedRotationLeavesOrigin ==
    [][\A e \in Constructed :
          UnsupportedRotation(e)
          => /\ result' = "ok"
             /\ events'[e].x = events[e].x /\ events'[e].y = events[e].y
             /\ events'[e].ox = events[e].ox /\ events'[e].oy = events[e].oy]_vars

(* C20, amended: scale_for_screen with a rotation outside 0, 90, 180, 270  *)
(* raises nothing and leaves x and y as they were.  It does not alter a    *)
(* screen origin that is set, but when the origin is unset it seeds it:    *)
(* (ox, oy) and (px, py) become the unprojected (x, y), and oz and pz the  *)
(* z of the call, so that the next projection with a supported rotation    *)
(* finds the origin set and leaves it there.                               *)
C20_UnsupportedRotationSeedsOrigin ==
    [][\A e \in Constructed :
          /\ (UnsupportedRotation(e)
              => /\ result' = "ok"
                 /\ events'[e].x = events[e].x /\ events'[e].y = events[e].y
                 /\ IF events[e].ox # None
                    THEN ScreenOrigin(events'[e]) = ScreenOrigin(events[e])
                    ELSE /\ ScreenOrigin(events'[e]) =
                                <<Some(events[e].x), Some(events[e].y),
                                  Some(events'[e].z)>>
                         /\ ScreenPrevious(events'[e]) = ScreenOrigin(events'[e]))
          /\ (OnEvent("scale_for_screen", e) /\ ~UnsupportedRotation(e)
                  /\ events[e].ox # None
              => ScreenOrigin(events'[e]) = ScreenOrigin(events[e]))]_vars

(* A supported projection made after an unsupported first one: the event   *)
(* is at a projected position away from (0, 0) and its origin is the       *)
(* (0, 0) that the unsupported call seeded.                                *)
C20_Witness ==
    /\ call[1] = "scale_for_screen" /\ call[2] = 1 /\ call[3][4] = 90
    /\ nops = 3
    /\ events[1].ox = Some(0) /\ events[1].oy = Some(0)
    /\ events[1].x # 0 /\ events[1].y # 0
    /\ events[1].dx = Some(events[1].x)

====
